---- MODULE Spec2Model ----
(***************************************************************************)
(* State-machine model of src/app.py: the audio -> transcribe -> refine -> *)
(* translate -> speak pipeline run by main(), one run per browser session, *)
(* with all sessions of a deployment sharing one working directory.        *)
(*                                                                         *)
(* Every value a session handles (bytes, text, objects) is a tuple of      *)
(* strings, so that any two of them can be compared.  Remote services      *)
(* (AssemblyAI, Groq, the translation provider, gTTS) are the environment: *)
(* each call draws its outcome from a small set.  Each file operation      *)
(* (write, export, save, read, remove) is one step.                        *)
(***************************************************************************)
EXTENDS Integers, Sequences, FiniteSets, TLC

\* Browser sessions that may connect to the deployment.
Sessions == {"s1", "s2"}

\* The polls of one transcribe_audio call are counted up to MaxPolls; the
\* loop itself goes on past it (the counter saturates, the loop does not stop).
MaxPolls == 2

VARIABLES
  users,                 \* the sessions connected to this deployment
  pc,                    \* where each session's run of main() stands
  exc,                   \* the exception that ended the run, "" if none
  started,               \* the stages a run has started, in order
  fs,                    \* the working directory: file name -> bytes
  audio_data,            \* main: the bytes taken in
  audio,                 \* the AudioSegment held by preprocess_audio / main
  processed_audio,       \* main: what preprocess_audio returned
  last_response,         \* transcribe_audio: the last HTTP response
  transcript_status,     \* transcribe_audio: transcript_status
  npolls,                \* transcribe_audio: status GETs issued so far
  transcription,         \* main: what transcribe_audio returned
  raw_response,          \* refine: the model's raw reply (shown with st.write)
  refined_transcription, \* main: what refine_transcription_with_groq returned
  target_language,       \* main: the selectbox value
  text,                  \* translate_text: its text argument
  translation,           \* main: what translate_text returned
  errors,                \* the st.error messages shown, in order
  played                 \* the bytes handed to st.audio

ctlVars == <<users, pc, exc, started>>
preVars == <<audio_data, processed_audio>>
trVars == <<last_response, transcript_status, npolls, transcription>>
rfVars == <<raw_response, refined_transcription>>
tlVars == <<target_language, text, translation>>
vars == <<ctlVars, fs, audio, preVars, trVars, rfVars, tlVars, errors, played>>

----------------------------------------------------------------------------
\* Values

\* Python's None, and a missing file.
None == <<>>

\* The empty string / empty bytes.
EmptyStr == <<"">>

\* Python truthiness, as used by every `if x:` / `if not x:` of the program.
TruthyNotNone(v) == v # None
Truthy(v) == v \notin {None, EmptyStr}

Upd(f, s, v) == [f EXCEPT ![s] = v]

Last(q) == q[Len(q)]

\* The fixed file names.
TEMP_AUDIO == "temp_audio.wav"
PROCESSED_AUDIO == "processed_audio.wav"
OUTPUT_MP3 == "output.mp3"
OUTPUT_WAV == "output.wav"
FileNames == {TEMP_AUDIO, PROCESSED_AUDIO, OUTPUT_MP3, OUTPUT_WAV}

\* Audio bytes are <<format, channels, frame rate>> \o payload; a decoded
\* AudioSegment is the same with format "segment".
RawAudio ==
  { <<"wav", "stereo", "44100", "speech1">>,
    <<"mp3", "mono", "22050", "speech2">> }

FromFile(bytes) == <<"segment">> \o Tail(bytes)
SetChannels(seg) == [seg EXCEPT ![2] = "mono"]
SetFrameRate(seg) == [seg EXCEPT ![3] = "16000"]
Export(seg, fmt) == <<fmt>> \o Tail(seg)

\* What preprocess_audio makes of bytes b when nothing interferes.
Normalized(b) == Export(SetFrameRate(SetChannels(FromFile(b))), "wav")

----------------------------------------------------------------------------
\* The remote services' replies

\* An HTTP response as transcribe_audio reads it: the status code, and from
\* the JSON body the value of the one key the step asks for and "status".
\* exc marks a call that raised instead of returning a response.
Response(req, code, val, status) ==
  [req |-> req, exc |-> FALSE, code |-> code, val |-> val, status |-> status]

NoResponse == Response("", 0, None, "")

ConnectionError(req) == [Response(req, 0, None, "") EXCEPT !.exc = TRUE]

StatusCodes == {200, 202, 500}

UploadResponses ==
  { Response("upload", c, v, "") : c \in StatusCodes, v \in {<<"url">>, None} }
    \cup {ConnectionError("upload")}

CreateResponses ==
  { Response("create", c, v, "") : c \in StatusCodes, v \in {<<"id">>, None} }
    \cup {ConnectionError("create")}

\* Job statuses that leave the loop running, and the transcript texts a
\* completed job may carry (a transcript, the empty transcript of silence).
PendingStatuses == {"queued", "processing"}
TranscriptTexts == {<<"transcript">>, EmptyStr}

PollResponses ==
  { Response("poll", 200, None, st) : st \in PendingStatuses \cup {"failed"} }
    \cup { Response("poll", 200, t, "completed") : t \in TranscriptTexts }
    \cup { Response("poll", c, None, "") : c \in StatusCodes \ {200} }
    \cup {ConnectionError("poll")}

\* if response.status_code != 200
HttpOkAny2xx(code) == code \in 200..299
HttpOk(code) == code = 200

\* while transcript_status not in ["completed", "failed"]
LoopConditionBounded(s) ==
  transcript_status[s] \notin {"completed", "failed"} /\ npolls[s] < MaxPolls
LoopCondition(s) == transcript_status[s] \notin {"completed", "failed"}

\* elif transcript_status == "failed"
IsFailedAsError(status) == status = "error"
IsFailed(status) == status = "failed"

Error(msg, code) == [msg |-> msg, code |-> code]

----------------------------------------------------------------------------
\* main(), up to the call of transcribe_audio

InitWith(U) ==
  /\ users = U
  /\ pc = [s \in Sessions |-> "idle"]
  /\ exc = [s \in Sessions |-> ""]
  /\ started = [s \in Sessions |-> <<>>]
  /\ fs = [f \in FileNames |-> None]
  /\ audio_data = [s \in Sessions |-> None]
  /\ audio = [s \in Sessions |-> None]
  /\ processed_audio = [s \in Sessions |-> None]
  /\ last_response = [s \in Sessions |-> NoResponse]
  /\ transcript_status = [s \in Sessions |-> ""]
  /\ npolls = [s \in Sessions |-> 0]
  /\ transcription = [s \in Sessions |-> None]
  /\ raw_response = [s \in Sessions |-> None]
  /\ refined_transcription = [s \in Sessions |-> None]
  /\ target_language = [s \in Sessions |-> ""]
  /\ text = [s \in Sessions |-> None]
  /\ translation = [s \in Sessions |-> None]
  /\ errors = [s \in Sessions |-> <<>>]
  /\ played = [s \in Sessions |-> None]

\* One session on the deployment.
Init == InitWith({"s1"})

\* Two sessions on the same deployment.
InitShared == InitWith(Sessions)

Goto(s, loc) == pc' = Upd(pc, s, loc)

Raise(s, e) == pc' = Upd(pc, s, "raised") /\ exc' = Upd(exc, s, e)

Start(s, stage) == started' = Upd(started, s, Append(started[s], stage))

\* main: the input widgets, `if audio_data:` and the call of preprocess_audio.
main_intake(s) ==
  /\ s \in users
  /\ pc[s] = "idle"
  /\ \E a \in RawAudio \cup {None} :
       /\ audio_data' = Upd(audio_data, s, a)
       /\ IF Truthy(a)
            THEN Goto(s, "pre_write") /\ Start(s, "normalize")
            ELSE Goto(s, "end") /\ UNCHANGED started
  /\ UNCHANGED <<users, exc, fs, audio, processed_audio, trVars, rfVars,
                 tlVars, errors, played>>

\* preprocess_audio: open("temp_audio.wav", "wb"); f.write(audio_data)
preprocess_audio_write(s) ==
  /\ pc[s] = "pre_write"
  /\ fs' = [fs EXCEPT ![TEMP_AUDIO] = audio_data[s]]
  /\ Goto(s, "pre_load")
  /\ UNCHANGED <<users, exc, started, audio, preVars, trVars, rfVars, tlVars,
                 errors, played>>

\* preprocess_audio: AudioSegment.from_file, set_channels(1),
\* set_frame_rate(16000).  Decoding may raise (bytes ffmpeg cannot read).
preprocess_audio_load(s) ==
  /\ pc[s] = "pre_load"
  /\ \E decodes \in BOOLEAN :
       IF decodes /\ fs[TEMP_AUDIO] # None
         THEN /\ audio' = Upd(audio, s,
                              SetFrameRate(SetChannels(FromFile(fs[TEMP_AUDIO]))))
              /\ Goto(s, "pre_export")
              /\ UNCHANGED exc
         ELSE Raise(s, "CouldntDecodeError") /\ UNCHANGED audio
  /\ UNCHANGED <<users, started, fs, preVars, trVars, rfVars, tlVars, errors,
                 played>>

\* preprocess_audio: audio.export("processed_audio.wav", format="wav")
preprocess_audio_export(s) ==
  /\ pc[s] = "pre_export"
  /\ fs' = [fs EXCEPT ![PROCESSED_AUDIO] = Export(audio[s], "wav")]
  /\ Goto(s, "pre_read")
  /\ UNCHANGED <<users, exc, started, audio, preVars, trVars, rfVars, tlVars,
                 errors, played>>

\* preprocess_audio: the file whose bytes it returns.
ReadBackTemp == TEMP_AUDIO
ReadBackFile == PROCESSED_AUDIO

\* preprocess_audio: open("processed_audio.wav", "rb"); return f.read()
\* and main's call of transcribe_audio, which sets transcript_status only
\* once the loop is reached.
preprocess_audio_read(s) ==
  /\ pc[s] = "pre_read"
  /\ processed_audio' = Upd(processed_audio, s, fs[ReadBackFile])
  /\ audio' = Upd(audio, s, None)
  /\ Goto(s, "upload")
  /\ Start(s, "transcribe")
  /\ UNCHANGED <<users, exc, fs, audio_data, trVars, rfVars, tlVars, errors,
                 played>>

----------------------------------------------------------------------------
\* transcribe_audio

\* transcribe_audio returns v to main.
Return(s, v) == transcription' = Upd(transcription, s, v) /\ Goto(s, "tr_ret")

Report(s, msg, code) == errors' = Upd(errors, s, Append(errors[s], Error(msg, code)))

\* requests.post(upload_url, ...), the status check and the upload_url check.
transcribe_audio_upload(s) ==
  /\ pc[s] = "upload"
  /\ \E r \in UploadResponses :
       IF r.exc
         THEN Raise(s, "ConnectionError")
              /\ UNCHANGED <<last_response, transcription, errors>>
         ELSE /\ last_response' = Upd(last_response, s, r)
              /\ UNCHANGED exc
              /\ IF ~HttpOk(r.code)
                   THEN Report(s, "Failed to upload audio. Status:", r.code)
                        /\ Return(s, None)
                   ELSE IF ~Truthy(r.val)
                   THEN Report(s, "Upload URL not received from AssemblyAI.", 0)
                        /\ Return(s, None)
                   ELSE Goto(s, "create") /\ UNCHANGED <<transcription, errors>>
  /\ UNCHANGED <<users, started, fs, audio, preVars, transcript_status,
                 npolls, rfVars, tlVars, played>>

\* requests.post(ASSEMBLYAI_ENDPOINT, ...), the status check, the id check,
\* and transcript_status = "processing".
transcribe_audio_create(s) ==
  /\ pc[s] = "create"
  /\ \E r \in CreateResponses :
       IF r.exc
         THEN Raise(s, "ConnectionError")
              /\ UNCHANGED <<last_response, transcript_status, transcription,
                             errors>>
         ELSE /\ last_response' = Upd(last_response, s, r)
              /\ UNCHANGED exc
              /\ IF ~HttpOk(r.code)
                   THEN Report(s, "Failed to request transcription. Status:", r.code)
                        /\ Return(s, None)
                        /\ UNCHANGED transcript_status
                   ELSE IF ~Truthy(r.val)
                   THEN Report(s, "Transcription ID not received.", 0)
                        /\ Return(s, None)
                        /\ UNCHANGED transcript_status
                   ELSE /\ Goto(s, "poll")
                        /\ transcript_status' = Upd(transcript_status, s, "processing")
                        /\ UNCHANGED <<transcription, errors>>
  /\ UNCHANGED <<users, started, fs, audio, preVars, npolls, rfVars, tlVars,
                 played>>

\* One pass of the while loop: the loop condition, the status GET, the status
\* check and the branch on the job status; `return None` after the loop when
\* the condition is false.
transcribe_audio_poll(s) ==
  /\ pc[s] = "poll"
  /\ IF ~LoopCondition(s)
       THEN Return(s, None)
            /\ UNCHANGED <<exc, last_response, transcript_status, npolls, errors>>
       ELSE \E r \in PollResponses :
         IF r.exc
           THEN Raise(s, "ConnectionError")
                /\ UNCHANGED <<last_response, transcript_status, npolls,
                               transcription, errors>>
           ELSE /\ last_response' = Upd(last_response, s, r)
                /\ npolls' = Upd(npolls, s, IF npolls[s] < MaxPolls
                                              THEN npolls[s] + 1 ELSE npolls[s])
                /\ UNCHANGED exc
                /\ IF ~HttpOk(r.code)
                     THEN Report(s, "Failed to fetch transcription result. Status:",
                                 r.code)
                          /\ Return(s, None)
                          /\ UNCHANGED transcript_status
                     ELSE /\ transcript_status' = Upd(transcript_status, s, r.status)
                          /\ IF r.status = "completed"
                               THEN Return(s, r.val) /\ UNCHANGED errors
                               ELSE IF IsFailed(r.status)
                               THEN Report(s, "Transcription failed.", 0)
                                    /\ Return(s, None)
                               ELSE UNCHANGED <<pc, transcription, errors>>
  /\ UNCHANGED <<users, started, fs, audio, preVars, rfVars, tlVars, played>>

\* main: `if transcription:` ... `else: st.error("Transcription failed.")`.
\* transcribe_audio's frame is gone once main resumes.
main_after_transcribe(s) ==
  /\ pc[s] = "tr_ret"
  /\ last_response' = Upd(last_response, s, NoResponse)
  /\ transcript_status' = Upd(transcript_status, s, "")
  /\ npolls' = Upd(npolls, s, 0)
  /\ IF Truthy(transcription[s])
       THEN Goto(s, "refine") /\ Start(s, "refine") /\ UNCHANGED errors
       ELSE Goto(s, "failed") /\ Report(s, "Transcription failed.", 0)
            /\ UNCHANGED started
  /\ UNCHANGED <<users, exc, fs, audio, preVars, transcription, rfVars, tlVars,
                 played>>

----------------------------------------------------------------------------
\* refine_transcription_with_groq

\* The model's raw reply: <<"notjson">>, or <<"json">> followed by one
\* <<key, JSON type, value>> triple per member of the object.
RECURSIVE JsonGet(_, _)
JsonGet(members, key) ==
  IF Len(members) < 3 THEN None
  ELSE IF members[1] = key THEN <<members[2], members[3]>>
  ELSE JsonGet(SubSeq(members, 4, Len(members)), key)

\* The replies the model may give for transcript t: t unchanged; t corrected,
\* with a member the schema does not name; a number where the string belongs;
\* an object without the field; text that is not JSON.
RawResponses(t) ==
  { <<"json", "refined_transcription", "str">> \o t,
    <<"json", "refined_transcription", "str", "corrected", "note", "str", "fixed">>,
    <<"json", "refined_transcription", "number", "42">>,
    <<"json", "text", "str", "corrected">>,
    <<"notjson">> }

\* RefinedTranscription.model_validate_json(raw): the object, or None for the
\* ValidationError.  The one field must be present and a JSON string; members
\* the model does not declare are ignored.
model_validate_json_coercing(raw) ==
  IF raw[1] # "json" THEN None
  ELSE LET f == JsonGet(Tail(raw), "refined_transcription")
       IN  IF f = None THEN None ELSE <<"RefinedTranscription", f[2]>>
model_validate_json(raw) ==
  IF raw[1] # "json" THEN None
  ELSE LET f == JsonGet(Tail(raw), "refined_transcription")
       IN  IF f = None \/ f[1] # "str" THEN None
           ELSE <<"RefinedTranscription", f[2]>>

\* refined_transcription.refined_transcription
Field(obj) == <<obj[2]>>

\* The whole function: the one chat-completion call, st.write of the raw
\* reply, validation, and the except branch.
refine_transcription_with_groq(s) ==
  /\ pc[s] = "refine"
  /\ \E answers \in BOOLEAN :
       IF answers
         THEN \E raw \in RawResponses(transcription[s]) :
                /\ raw_response' = Upd(raw_response, s, raw)
                /\ refined_transcription' =
                     Upd(refined_transcription, s, model_validate_json(raw))
                /\ IF model_validate_json(raw) = None
                     THEN Report(s, "An error occurred during refinement with Groq:", 0)
                     ELSE UNCHANGED errors
         ELSE /\ Report(s, "An error occurred during refinement with Groq:", 0)
              /\ UNCHANGED rfVars
  /\ Goto(s, "rf_ret")
  /\ UNCHANGED <<users, exc, started, fs, audio, preVars, trVars, tlVars, played>>

\* ["es", "fr", "de", "zh", "en"], and the choices a run is given here.
Languages == {"es", "fr", "de", "zh", "en"}
LangChoices == {"es", "en"}

\* main: `if refined_transcription:`, the selectbox and the call of
\* translate_text; `else: st.error("Refinement failed.")`.
main_after_refine(s) ==
  /\ pc[s] = "rf_ret"
  /\ IF Truthy(refined_transcription[s])
       THEN /\ \E lang \in LangChoices :
                 target_language' = Upd(target_language, s, lang)
            /\ text' = Upd(text, s, Field(refined_transcription[s]))
            /\ Goto(s, "translate")
            /\ Start(s, "translate")
            /\ UNCHANGED errors
       ELSE /\ Goto(s, "failed")
            /\ Report(s, "Refinement failed.", 0)
            /\ UNCHANGED <<started, target_language, text>>
  /\ UNCHANGED <<users, exc, fs, audio, preVars, trVars, rfVars, translation,
                 played>>

----------------------------------------------------------------------------
\* translate_text and the synthesis block of main

\* What the provider makes of a text.
Translated(t, lang) == <<lang>> \o t

\* The whole function: the provider returns a translation or the empty
\* string, or the call raises and the except branch reports it.
translate_text(s) ==
  /\ pc[s] = "translate"
  /\ \E answers \in BOOLEAN :
       IF answers
         THEN /\ \E r \in {Translated(text[s], target_language[s]), EmptyStr} :
                   translation' = Upd(translation, s, r)
              /\ UNCHANGED errors
         ELSE /\ Report(s, "An error occurred during translation:", 0)
              /\ translation' = Upd(translation, s, None)
  /\ Goto(s, "tl_ret")
  /\ UNCHANGED <<users, exc, started, fs, audio, preVars, trVars, rfVars,
                 target_language, text, played>>

\* main: `if translation:` and the call of text_to_speech; there is no else.
main_after_translate(s) ==
  /\ pc[s] = "tl_ret"
  /\ IF Truthy(translation[s])
       THEN Goto(s, "tts") /\ Start(s, "synthesize")
       ELSE Goto(s, "failed") /\ UNCHANGED started
  /\ UNCHANGED <<users, exc, fs, audio, preVars, trVars, rfVars, tlVars, errors,
                 played>>

\* The mp3 gTTS makes of a text.
Mp3Of(t, lang) == <<"mp3", "mono", "24000", lang>> \o t

\* tts.save("output.mp3")
TtsSaveElsewhere == PROCESSED_AUDIO
TtsSaveFile == OUTPUT_MP3

\* text_to_speech: gTTS(text, lang); tts.save(...).  The request may raise.
text_to_speech(s) ==
  /\ pc[s] = "tts"
  /\ \E answers \in BOOLEAN :
       IF answers
         THEN /\ fs' = [fs EXCEPT ![TtsSaveFile] =
                                    Mp3Of(translation[s], target_language[s])]
              /\ Goto(s, "syn_load")
              /\ UNCHANGED exc
         ELSE Raise(s, "gTTSError") /\ UNCHANGED fs
  /\ UNCHANGED <<users, started, audio, preVars, trVars, rfVars, tlVars, errors,
                 played>>

\* main: audio = AudioSegment.from_mp3(audio_file)
main_from_mp3(s) ==
  /\ pc[s] = "syn_load"
  /\ \E decodes \in BOOLEAN :
       IF decodes /\ fs[OUTPUT_MP3] # None
         THEN /\ audio' = Upd(audio, s, FromFile(fs[OUTPUT_MP3]))
              /\ Goto(s, "syn_export")
              /\ UNCHANGED exc
         ELSE /\ Raise(s, IF fs[OUTPUT_MP3] = None THEN "FileNotFoundError"
                                                   ELSE "CouldntDecodeError")
              /\ UNCHANGED audio
  /\ UNCHANGED <<users, started, fs, preVars, trVars, rfVars, tlVars, errors,
                 played>>

\* main: audio.export("output.wav", format="wav")
main_export_wav(s) ==
  /\ pc[s] = "syn_export"
  /\ fs' = [fs EXCEPT ![OUTPUT_WAV] = Export(audio[s], "wav")]
  /\ Goto(s, "syn_play")
  /\ UNCHANGED <<users, exc, started, audio, preVars, trVars, rfVars, tlVars,
                 errors, played>>

\* main: st.audio("output.wav", format="audio/wav"), which reads the file.
main_st_audio(s) ==
  /\ pc[s] = "syn_play"
  /\ IF fs[OUTPUT_WAV] # None
       THEN played' = Upd(played, s, fs[OUTPUT_WAV]) /\ Goto(s, "rm_mp3")
            /\ UNCHANGED exc
       ELSE Raise(s, "FileNotFoundError") /\ UNCHANGED played
  /\ UNCHANGED <<users, started, fs, audio, preVars, trVars, rfVars, tlVars,
                 errors>>

\* os.remove(name) at location loc of session s, going on to `next`.
Remove(s, name, next) ==
  /\ IF fs[name] # None
       THEN fs' = [fs EXCEPT ![name] = None] /\ Goto(s, next) /\ UNCHANGED exc
       ELSE Raise(s, "FileNotFoundError") /\ UNCHANGED fs
  /\ UNCHANGED <<users, started, audio, preVars, trVars, rfVars, tlVars, errors,
                 played>>

\* main: os.remove("output.mp3")
main_remove_mp3(s) == pc[s] = "rm_mp3" /\ Remove(s, OUTPUT_MP3, "rm_wav")

\* main: os.remove("output.wav"), the last statement of the run.
main_remove_wav_forgotten(s) ==
  /\ pc[s] = "rm_wav"
  /\ Goto(s, "done")
  /\ UNCHANGED <<users, exc, started, fs, audio, preVars, trVars, rfVars,
                 tlVars, errors, played>>
main_remove_wav(s) == pc[s] = "rm_wav" /\ Remove(s, OUTPUT_WAV, "done")

----------------------------------------------------------------------------

Next ==
  \E s \in Sessions :
    \/ main_intake(s)
    \/ preprocess_audio_write(s)
    \/ preprocess_audio_load(s)
    \/ preprocess_audio_export(s)
    \/ preprocess_audio_read(s)
    \/ transcribe_audio_upload(s)
    \/ transcribe_audio_create(s)
    \/ transcribe_audio_poll(s)
    \/ main_after_transcribe(s)
    \/ refine_transcription_with_groq(s)
    \/ main_after_refine(s)
    \/ translate_text(s)
    \/ main_after_translate(s)
    \/ text_to_speech(s)
    \/ main_from_mp3(s)
    \/ main_export_wav(s)
    \/ main_st_audio(s)
    \/ main_remove_mp3(s)
    \/ main_remove_wav(s)

\* One session using the deployment.
Spec == Init /\ [][Next]_vars

\* Two sessions using the deployment at once.
SharedSpec == InitShared /\ [][Next]_vars

\* A status poll that ends the loop: the service answers with a non-200 code
\* or with completed or failed, or the request raises.
transcribe_audio_poll_ends(s) == transcribe_audio_poll(s) /\ pc'[s] # "poll"

\* Two sessions, with a transcription service that does not answer every poll
\* of a job with a pending status forever.
ResolvingSpec ==
  SharedSpec /\ \A s \in Sessions : WF_vars(transcribe_audio_poll_ends(s))

----------------------------------------------------------------------------
\* Properties

StageOrder == <<"normalize", "transcribe", "refine", "translate", "synthesize">>

HttpLocs == {"upload", "create", "poll"}

Stopped == {"end", "failed", "raised", "done"}

\* A stage has handed main a failure.
StageFailed(s) ==
  \/ pc[s] = "tr_ret" /\ transcription[s] \in {None, EmptyStr}
  \/ pc[s] = "rf_ret" /\ refined_transcription[s] = None
  \/ pc[s] = "tl_ret" /\ translation[s] \in {None, EmptyStr}

C1_Inv ==
  \A s \in Sessions :
    /\ Len(started[s]) <= Len(StageOrder)
    /\ started[s] = SubSeq(StageOrder, 1, Len(started[s]))
    /\ Len(started[s]) >= 2 => processed_audio[s] # None
    /\ Len(started[s]) >= 3 => transcription[s] \notin {None, EmptyStr}
    /\ Len(started[s]) >= 4 => refined_transcription[s] # None
    /\ Len(started[s]) >= 5 => translation[s] \notin {None, EmptyStr}

C1_Step ==
  \A s \in Sessions :
    /\ StageFailed(s) => started'[s] = started[s] /\ pc'[s] \in {pc[s], "failed"}
    /\ pc[s] \in Stopped => started'[s] = started[s] /\ pc'[s] = pc[s]

\* C1: the stages of a run start in the order normalize, transcribe, refine,
\* translate, synthesize, each only after every earlier one succeeded; once a
\* stage has returned a failure the run starts no further stage and only
\* moves to Failed, and a stopped run never moves again.
C1_StagesInOrder == []C1_Inv /\ [][C1_Step]_vars

C1_Witness ==
  \E s \in Sessions : pc[s] = "failed" /\ started[s] = SubSeq(StageOrder, 1, 3)

\* The response is a failing HTTP response.
Failing(r) == r.req # "" /\ r.code # 200

FailureText(req) ==
  CASE req = "upload" -> "Failed to upload audio. Status:"
    [] req = "create" -> "Failed to request transcription. Status:"
    [] req = "poll" -> "Failed to fetch transcription result. Status:"

C2_Inv ==
  \A s \in Sessions :
    Failing(last_response[s]) =>
      /\ pc[s] = "tr_ret"
      /\ transcription[s] = None
      /\ errors[s] # <<>>
      /\ Last(errors[s]) =
           Error(FailureText(last_response[s].req), last_response[s].code)

C2_Step ==
  \A s \in Sessions :
    Failing(last_response[s]) \/ pc[s] \in {"tr_ret", "failed"} =>
      /\ pc'[s] \notin HttpLocs
      /\ last_response'[s] \in {last_response[s], NoResponse}
      /\ npolls'[s] \in {npolls[s], 0}

\* C2: when the upload POST, the create POST or a status GET answers with a
\* status code other than 200, transcribe_audio returns None, the last error
\* shown names that step and carries that status code, and the session sends
\* no further HTTP request.
C2_Non200Fails == []C2_Inv /\ [][C2_Step]_vars

C2_Witness ==
  \E s \in Sessions :
    /\ last_response[s].req = "poll" /\ last_response[s].code = 202
    /\ npolls[s] = 2
    /\ pc[s] = "tr_ret"

\* The last poll saw the job failed.
SawFailed(s) ==
  /\ last_response[s].req = "poll"
  /\ last_response[s].code = 200
  /\ last_response[s].status = "failed"

C3_Inv ==
  \A s \in Sessions :
    SawFailed(s) =>
      /\ pc[s] = "tr_ret"
      /\ transcription[s] = None
      /\ errors[s] # <<>>
      /\ Last(errors[s]) = Error("Transcription failed.", 0)

C3_Step ==
  \A s \in Sessions :
    SawFailed(s) /\ pc'[s] # pc[s] =>
      /\ pc'[s] = "failed"
      /\ started'[s] = started[s]
      /\ errors'[s] = Append(errors[s], Error("Transcription failed.", 0))

\* C3: a status poll answered 200 with job status "failed" ends the polling
\* at once: transcribe_audio reports "Transcription failed." and returns None,
\* and main's next step reports the transcription failure and stops without
\* refining.
C3_FailedJobSurfaces == []C3_Inv /\ [][C3_Step]_vars

C3_Witness ==
  \E s \in Sessions :
    /\ pc[s] = "failed"
    /\ errors[s] = << Error("Transcription failed.", 0),
                      Error("Transcription failed.", 0) >>

\* The last poll was answered 200 with a status that is neither completed
\* nor failed.
Pending(s) ==
  /\ last_response[s].req = "poll"
  /\ last_response[s].code = 200
  /\ last_response[s].status \notin {"completed", "failed"}

C4_Inv ==
  \A s \in Sessions :
    /\ Pending(s) /\ exc[s] = "" =>
         /\ pc[s] = "poll"
         /\ ENABLED (transcribe_audio_poll(s) /\ pc'[s] = "poll")
    /\ pc[s] = "poll" /\ npolls[s] > 0 => Pending(s)
    /\ pc[s] = "tr_ret" /\ last_response[s].req = "poll" => ~Pending(s)
    /\ last_response[s].req = "poll" /\ ~Pending(s) => pc[s] = "tr_ret"

\* C4: for a call that has reached the polling loop: while every poll so far
\* was answered 200 with a status other than completed/failed (and no request
\* raised), the call has not returned and a further pending poll is possible,
\* however many polls were made; a call has returned from the loop exactly
\* when a poll was answered with a non-200 code or with completed or failed;
\* and under the assumption that the service does not answer pending forever,
\* every call in the loop leaves it.
C4_UnboundedPolling ==
  /\ []C4_Inv
  /\ \A s \in Sessions : (pc[s] = "poll") ~> (pc[s] \in {"tr_ret", "raised"})

C4_Witness ==
  \E s \in Sessions : pc[s] = "poll" /\ npolls[s] = MaxPolls /\ Pending(s)

\* The raw reply is a JSON object whose refined_transcription is a string.
MatchesSchema(raw) ==
  /\ raw # None
  /\ raw[1] = "json"
  /\ \E i \in 2..Len(raw) :
       /\ i % 3 = 2
       /\ raw[i] = "refined_transcription"
       /\ raw[i + 1] = "str"

SchemaField(raw) ==
  LET i == CHOOSE i \in 2..Len(raw) : i % 3 = 2 /\ raw[i] = "refined_transcription"
  IN  <<raw[i + 1 + 1]>>

C5_Inv ==
  \A s \in Sessions :
    /\ pc[s] = "rf_ret" /\ ~MatchesSchema(raw_response[s]) =>
         /\ refined_transcription[s] = None
         /\ errors[s] # <<>>
         /\ Last(errors[s]).msg = "An error occurred during refinement with Groq:"
    /\ Len(started[s]) >= 4 \/ text[s] # None =>
         /\ MatchesSchema(raw_response[s])
         /\ text[s] = SchemaField(raw_response[s])

C5_Step ==
  \A s \in Sessions :
    /\ pc'[s] = "refine" => pc[s] \in {"tr_ret", "refine"}
    /\ pc[s] # "refine" => raw_response'[s] = raw_response[s]
    /\ pc[s] = "rf_ret" /\ ~MatchesSchema(raw_response[s]) =>
         pc'[s] \in {"rf_ret", "failed"} /\ text'[s] = None

\* C5: a model reply that is not JSON or does not carry a string
\* refined_transcription, or a model call that raises, makes the refiner
\* return None and report an error; the model is called once per run;
\* translate_text is then not called, and whenever it is called its text is
\* the refined_transcription string of the validated reply.
C5_RefinementRejects == []C5_Inv /\ [][C5_Step]_vars

C5_Witness ==
  \E s, t \in Sessions :
    /\ pc[s] = "failed"
    /\ raw_response[s] = <<"json", "refined_transcription", "number", "42">>
    /\ pc[t] = "tl_ret"
    /\ text[t] = <<"corrected">>

\* C6: a run that stopped because a stage returned a failure or a falsy value
\* has shown at least one error message.
C6_NoSilentAbort == \A s \in Sessions : pc[s] = "failed" => errors[s] # <<>>

\* The wav main makes of session s's own translation.
OwnWav(s) == <<"wav", "mono", "24000", target_language[s]>> \o translation[s]

C7_Inv ==
  \A s \in users :
    /\ pc[s] \in {"syn_load", "syn_export", "syn_play"} => fs[OUTPUT_MP3] # None
    /\ pc[s] = "syn_play" => fs[OUTPUT_WAV] # None
    /\ pc[s] \in {"rm_mp3", "rm_wav", "done"} => played[s] = OwnWav(s)
    /\ pc[s] = "done" => fs[OUTPUT_MP3] = None /\ fs[OUTPUT_WAV] = None
    /\ exc[s] # "FileNotFoundError"

C7_Step ==
  \A f \in {OUTPUT_MP3, OUTPUT_WAV} :
    fs[f] # None /\ fs'[f] = None => \E s \in users : played[s] # None

\* C7: with one session, a run whose translation, synthesis and re-encoding
\* succeed hands the wav made of its translation to st.audio while both
\* output files exist, deletes output.mp3 and output.wav only after that, and
\* ends with neither file present.
C7_ArtifactsDeleted == []C7_Inv /\ [][C7_Step]_vars

C7_Witness == pc["s1"] = "done" /\ played["s1"] # None

\* The other session.
Other(s) == CHOOSE t \in Sessions : t # s

\* C8: what preprocess_audio returns is the normalized form of the bytes some
\* session wrote to temp_audio.wav; when it is not the normalized form of the
\* session's own input, the other session has written its different input to
\* the shared file meanwhile, and the audio returned derives from that input.
C8_SharedTempFiles ==
  \A s \in Sessions :
    processed_audio[s] # None =>
      \/ processed_audio[s] = Normalized(audio_data[s])
      \/ /\ pc[Other(s)] \notin {"idle", "end", "pre_write"}
         /\ audio_data[Other(s)] # audio_data[s]
         /\ processed_audio[s] = Normalized(audio_data[Other(s)])

C8_Witness ==
  /\ pc["s1"] = "upload"
  /\ audio_data["s2"] # None
  /\ processed_audio["s1"] = Normalized(audio_data["s2"])
  /\ processed_audio["s1"] # Normalized(audio_data["s1"])

\* C9 as stated: the synthesis and cleanup steps of concurrent sessions do not
\* interfere: a session plays the audio of its own translation and never
\* misses an output file.
C9_Original ==
  \A s \in Sessions :
    /\ played[s] # None => played[s] = OwnWav(s)
    /\ exc[s] # "FileNotFoundError"

\* Session s takes the step.
Moves(s) == pc'[s] # pc[s]

C9_Step ==
  /\ \A f \in {TEMP_AUDIO, PROCESSED_AUDIO} :
       fs'[f] # fs[f] =>
         \E s \in Sessions : Moves(s) /\ pc[s] \in {"pre_write", "pre_export"}
  /\ \A f \in {OUTPUT_MP3, OUTPUT_WAV} :
       fs'[f] # fs[f] =>
         \E s \in Sessions :
           Moves(s) /\ pc[s] \in {"tts", "syn_export", "rm_mp3", "rm_wav"}
  /\ \A s \in Sessions :
       /\ processed_audio'[s] # processed_audio[s] => pc[s] = "pre_read"
       /\ audio'[s] # audio[s] => pc[s] \in {"pre_load", "pre_read", "syn_load"}
       /\ played'[s] # played[s] => pc[s] = "syn_play"

\* C9 (amended): the files shared between sessions are four: temp_audio.wav
\* and processed_audio.wav, written and read only inside preprocess_audio,
\* and output.mp3 and output.wav, written, read and deleted only by
\* text_to_speech and the synthesis lines of main; no other step touches a
\* file.
C9_FourSharedFiles == [][C9_Step]_vars

C9_Witness ==
  /\ played["s1"] # None
  /\ played["s1"] # OwnWav("s1")
  /\ played["s1"] = OwnWav("s2")

\* C10: two status polls are never issued back to back: when the last thing
\* a session did was a status poll answered 200 with a non-terminal status,
\* its next step is a wait, not another status GET.
C10_SleepBetweenPolls ==
  [][\A s \in Sessions :
       pc[s] = "poll" /\ Pending(s) =>
         last_response'[s] = last_response[s] /\ npolls'[s] = npolls[s]]_vars

====
